---------------------------- MODULE Spec2Model ----------------------------
(***************************************************************************)
(* Model of the ros2_tools timestamp utilities:                            *)
(*   check_cam_sync.py : diff_ns, find_closest_forward, check_duplicates,  *)
(*                       check_pair, main (the audit run)                  *)
(*   cook_bag_sync.py  : gather_header_stamps, find_common_anchor and the  *)
(*                       __main__ resequencing run                         *)
(* Python indices are kept 0-based in the model's values; a Python list is *)
(* a TLA+ sequence, so element i of a list l is l[i + 1].                  *)
(***************************************************************************)
EXTENDS Integers, Sequences, FiniteSets, TLC

----------------------------------------------------------------------------
(* Bounds of the model                                                     *)

\* longest reference / target timestamp list given to check_pair
MaxLen == 3
\* longest recorded session (number of messages in the input bag)
MaxBag == 6
\* longest timestamp list given to find_common_anchor
MaxList == 2
\* largest --tolerance_ns drawn
MaxTol == 1
\* longest stream of the audited bag
MaxStream == 2
\* longest timestamp list given to check_duplicates
MaxDup == 5

----------------------------------------------------------------------------
(* Values                                                                  *)

\* nanoseconds per second, the literal 1_000_000_000 of both programs
NANOS == 1000000000

\* float("inf") of find_closest_forward; every delta is >= 0, so a negative
\* number is free to stand for it
INF == -1

\* header.stamp values (sec, nanosec) of the audited streams
Stamps == { <<0, 0>>, <<0, 999999999>>, <<1, 0>> }

\* all sequences over S of length at most n
SeqsUpTo(S, n) == UNION { [1..k -> S] : k \in 0..n }

\* a total that is the length of the target list
TargetLen(a, b) == b

Min(a, b) == IF a <= b THEN a ELSE b

Abs(x) == IF x < 0 THEN -x ELSE x

\* min() of a non-empty set of integers
SetMin(S) == CHOOSE x \in S : \A y \in S : x <= y

\* set(lst)
ToSet(lst) == { lst[k] : k \in 1..Len(lst) }

----------------------------------------------------------------------------
(* check_cam_sync.py : helpers                                             *)

\* a borrow that adds a second of nanoseconds without taking it from sec
diff_ns_no_sec_borrow(a, b) ==
    LET sec   == a[1] - b[1]
        nsec0 == a[2] - b[2]
        nsec  == IF nsec0 < 0 THEN nsec0 + NANOS ELSE nsec0
    IN  Abs(sec * NANOS + nsec)

\* diff_ns(a, b): |a-b| in nanoseconds, each ts = (sec, nsec)
diff_ns(a, b) ==
    LET sec0  == a[1] - b[1]
        nsec0 == a[2] - b[2]
        sec   == IF nsec0 < 0 THEN sec0 - 1 ELSE sec0
        nsec  == IF nsec0 < 0 THEN nsec0 + NANOS ELSE nsec0
    IN  Abs(sec * NANOS + nsec)

\* the test `d < best_d` of find_closest_forward, best_d starting at inf
Closer(d, best_d) == best_d = INF \/ d < best_d

\* a scan that goes on to the end of the list after the delta stopped falling
RECURSIVE ScanForwardNoBreak(_, _, _, _, _, _)
ScanForwardNoBreak(t_ref, ts_target, i, best_i, best_d, n) ==
    IF i >= Len(ts_target)
    THEN [best_i |-> best_i, best_d |-> best_d, n |-> n]
    ELSE LET d == diff_ns(t_ref, ts_target[i + 1])
         IN  IF Closer(d, best_d)
             THEN ScanForwardNoBreak(t_ref, ts_target, i + 1, i, d, n + 1)
             ELSE ScanForwardNoBreak(t_ref, ts_target, i + 1, best_i, best_d, n + 1)

\* the for loop of find_closest_forward from index i on, with the best
\* candidate so far; n counts the deltas computed
RECURSIVE ScanForward(_, _, _, _, _, _)
ScanForward(t_ref, ts_target, i, best_i, best_d, n) ==
    IF i >= Len(ts_target)
    THEN [best_i |-> best_i, best_d |-> best_d, n |-> n]
    ELSE LET d == diff_ns(t_ref, ts_target[i + 1])
         IN  IF Closer(d, best_d)
             THEN ScanForward(t_ref, ts_target, i + 1, i, d, n + 1)
             ELSE [best_i |-> best_i, best_d |-> best_d, n |-> n + 1]

find_closest_forward(t_ref, ts_target, start_idx) ==
    ScanForward(t_ref, ts_target, start_idx, -1, INF, 0)

----------------------------------------------------------------------------
(* State                                                                   *)

VARIABLES
    pc,               \* position of the running program
    printed,          \* the lines printed so far (stdout)
    \* check_pair(reference_ts, target_ts, tol_ns) and its locals
    reference_ts, target_ts, tol_ns, i_ref, i_target, unsynced,
    matches,          \* history: <<i_ref, idx, d, cursor before the call>>
    n_diffs,          \* history: number of diff_ns calls made so far
    \* cook_bag_sync.py __main__
    bag,              \* the recorded session: messages in arrival order
    stamp_lists, anchor_ns, first_idx,
    imu_start_time_ns, imu_offset_ns,
    last_written_ts,  \* dict: managed topic -> header timestamp last written
    pos,              \* number of messages the rewrite reader has returned
    out,              \* the records given to writer.write, in order
    \* check_cam_sync.py main
    audit_bag,        \* the audited bag: topic -> header stamps in order
    ref_ts, tgt_ts,   \* extract_timestamps of the reference / current target
    tgt_i,            \* number of targets the for loop has gone through
    \* a helper function called on its own
    arg,              \* the arguments of the call
    ret               \* what the call returned

pairVars == <<reference_ts, target_ts, tol_ns, i_ref, i_target, unsynced,
              matches, n_diffs>>

cookVars == <<bag, stamp_lists, anchor_ns, first_idx, imu_start_time_ns,
              imu_offset_ns, last_written_ts, pos, out>>

auditVars == <<audit_bag, ref_ts, tgt_ts, tgt_i>>

fnVars == <<arg, ret>>

vars == <<pc, printed, pairVars, cookVars, auditVars, fnVars>>

\* the variables of a program that is not the one running
PairIdle ==
    /\ reference_ts = <<>> /\ target_ts = <<>> /\ tol_ns = 0
    /\ i_ref = 0 /\ i_target = 0 /\ unsynced = 0
    /\ matches = <<>> /\ n_diffs = 0

FnIdle == arg = <<>> /\ ret = <<>>

AuditIdle ==
    /\ audit_bag = <<>> /\ ref_ts = <<>> /\ tgt_ts = <<>> /\ tgt_i = 0

CookIdle ==
    /\ bag = <<>> /\ stamp_lists = <<>> /\ anchor_ns = 0
    /\ first_idx = <<>> /\ imu_start_time_ns = 0 /\ imu_offset_ns = 0
    /\ last_written_ts = <<>> /\ pos = 0 /\ out = <<>>

----------------------------------------------------------------------------
(* check_cam_sync.py : check_pair                                          *)

\* a cursor that is left on the matched element
CursorOnMatch(idx) == idx

\* i_target = idx + 1
CursorAfter(idx) == idx + 1

\* the f-string lines check_pair prints
FindingLine(ir, idx, d) ==
    [kind |-> "finding", i_ref |-> ir, idx |-> idx, d |-> d]

TallyLine(total, n, tol) ==
    [kind |-> "tally", total |-> total, unsynced |-> n, tol_ns |-> tol]

\* check_pair is entered: i_target = 0, unsynced = 0
PairInit ==
    /\ reference_ts \in SeqsUpTo(Stamps, MaxLen)
    /\ target_ts \in SeqsUpTo(Stamps, MaxLen)
    /\ tol_ns \in 0..MaxTol
    /\ i_ref = 0
    /\ i_target = 0
    /\ unsynced = 0
    /\ matches = <<>>
    /\ n_diffs = 0
    /\ printed = <<>>
    /\ pc = "pair_loop"
    /\ CookIdle
    /\ AuditIdle
    /\ FnIdle

\* one iteration of the for loop in which find_closest_forward finds a match
PairMatch ==
    /\ pc = "pair_loop"
    /\ i_ref < Len(reference_ts)
    /\ LET t_ref == reference_ts[i_ref + 1]
           r     == find_closest_forward(t_ref, target_ts, i_target)
       IN  /\ r.best_i # -1
           /\ i_target' = CursorAfter(r.best_i)
           /\ matches' = Append(matches, <<i_ref, r.best_i, r.best_d, i_target>>)
           /\ n_diffs' = n_diffs + r.n
           /\ IF r.best_d > tol_ns
              THEN /\ unsynced' = unsynced + 1
                   /\ printed' = Append(printed,
                                        FindingLine(i_ref, r.best_i, r.best_d))
              ELSE UNCHANGED <<unsynced, printed>>
    /\ i_ref' = i_ref + 1
    /\ UNCHANGED <<pc, reference_ts, target_ts, tol_ns, cookVars, auditVars, fnVars>>

\* the iteration in which find_closest_forward returns -1: break
PairBreak ==
    /\ pc = "pair_loop"
    /\ i_ref < Len(reference_ts)
    /\ LET r == find_closest_forward(reference_ts[i_ref + 1], target_ts, i_target)
       IN  /\ r.best_i = -1
           /\ n_diffs' = n_diffs + r.n
    /\ pc' = "pair_report"
    /\ UNCHANGED <<printed, reference_ts, target_ts, tol_ns, i_ref, i_target,
                   unsynced, matches, cookVars, auditVars, fnVars>>

\* the for loop has gone through every reference element
PairExhausted ==
    /\ pc = "pair_loop"
    /\ i_ref = Len(reference_ts)
    /\ pc' = "pair_report"
    /\ UNCHANGED <<printed, pairVars, cookVars, auditVars, fnVars>>

\* total = min(len(reference_ts), len(target_ts)); the closing print
PairReport ==
    /\ pc = "pair_report"
    /\ printed' = Append(printed,
                         TallyLine(Min(Len(reference_ts), Len(target_ts)),
                                   unsynced, tol_ns))
    /\ pc' = "pair_done"
    /\ UNCHANGED <<pairVars, cookVars, auditVars, fnVars>>

\* the whole for loop of check_pair from reference index ir on: the number
\* of unsynchronised pairs and the lines printed
RECURSIVE PairLoop(_, _, _, _, _, _, _)
PairLoop(reference, target, tol, ir, it, n, lines) ==
    IF ir >= Len(reference)
    THEN [unsynced |-> n, lines |-> lines]
    ELSE LET r == find_closest_forward(reference[ir + 1], target, it)
         IN  IF r.best_i = -1
             THEN [unsynced |-> n, lines |-> lines]
             ELSE IF r.best_d > tol
                  THEN PairLoop(reference, target, tol, ir + 1,
                                CursorAfter(r.best_i), n + 1,
                                Append(lines, FindingLine(ir, r.best_i, r.best_d)))
                  ELSE PairLoop(reference, target, tol, ir + 1,
                                CursorAfter(r.best_i), n, lines)

\* check_pair(reference_ts, target_ts, tol_ns): the lines it prints
check_pair(reference, target, tol) ==
    LET r == PairLoop(reference, target, tol, 0, 0, 0, <<>>)
    IN  Append(r.lines, TallyLine(Min(Len(reference), Len(target)), r.unsynced, tol))

PairNext == PairMatch \/ PairBreak \/ PairExhausted \/ PairReport

PairSpec == PairInit /\ [][PairNext]_vars

\* check_pair runs on: a statement that can be executed is executed
PairFairSpec == PairSpec /\ WF_vars(PairNext)

----------------------------------------------------------------------------
(* cook_bag_sync.py : helpers                                              *)

\* CAM_TOPICS = [t1, t2, t3] (the three topics of the usage line)
CAM_TOPICS ==
    << "/cam_mid/image_raw", "/cam_left/image_raw", "/cam_right/image_raw" >>

IMU_TOPIC == "/imu/data"

\* a recorded topic that is neither a camera topic nor the IMU topic
OTHER_TOPIC == "/tf"

CamSet == ToSet(CAM_TOPICS)

\* header.stamp values (sec, nanosec) carried by the recorded messages: two
\* on the first camera topic, one (common to all three) on the other two,
\* two on the IMU topic, one before and one after the common camera stamp, so that
\* the IMU offset is positive in some runs and negative in others
StampsOf(topic) ==
    IF topic = CAM_TOPICS[1] THEN { <<0, 0>>, <<1, 0>> }
    ELSE IF topic \in CamSet THEN { <<1, 0>> }
    ELSE IF topic = IMU_TOPIC THEN { <<0, 999999999>>, <<2, 1>> }
    ELSE { <<0, 0>> }

\* what a recorded message can be: its topic and its serialized payload, of
\* which the model keeps the header stamp
MsgKinds ==
    UNION { [topic : {t}, data : StampsOf(t)] :
                t \in CamSet \cup {IMU_TOPIC, OTHER_TOPIC} }

\* the log timestamp read_next returns with the message at position k (0-based)
LogTime(k) == k + 1

\* header.stamp.sec * 1_000_000_000 + header.stamp.nanosec
to_ns(stamp) == stamp[1] * NANOS + stamp[2]

\* quotient and remainder that truncate towards zero
from_ns_truncated(ns) ==
    IF ns >= 0
    THEN << ns \div NANOS, ns % NANOS >>
    ELSE << -((-ns) \div NANOS), -((-ns) % NANOS) >>

\* stamp.sec = ns // 1_000_000_000 ; stamp.nanosec = ns % 1_000_000_000
from_ns(ns) == << ns \div NANOS, ns % NANOS >>

\* gather_header_stamps: every header.stamp (nanoseconds) of one topic
gather_header_stamps(b, topic_name) ==
    LET sel == SelectSeq(b, LAMBDA m : m.topic = topic_name)
    IN  [k \in 1..Len(sel) |-> to_ns(sel[k].data)]

\* common = set(lists[0]); for lst in lists[1:]: common &= set(lst)
RECURSIVE CommonFrom(_, _, _)
CommonFrom(lists, k, common) ==
    IF k > Len(lists) THEN common
    ELSE CommonFrom(lists, k + 1, common \cap ToSet(lists[k]))

\* a common element that is not the earliest one
find_common_latest(lists) ==
    LET common == CommonFrom(lists, 2, ToSet(lists[1]))
    IN  IF common = {}
        THEN [raised |-> TRUE, value |-> 0]
        ELSE [raised |-> FALSE,
              value |-> CHOOSE x \in common : \A y \in common : y <= x]

\* find_common_anchor: the earliest timestamp that appears in all lists, or
\* RuntimeError raised
find_common_anchor(lists) ==
    LET common == CommonFrom(lists, 2, ToSet(lists[1]))
    IN  IF common = {}
        THEN [raised |-> TRUE, value |-> 0]
        ELSE [raised |-> FALSE, value |-> SetMin(common)]

\* the last position of x in lst
ListIndexLast(lst, x) ==
    (CHOOSE k \in 1..Len(lst) :
        lst[k] = x /\ \A j \in (k + 1)..Len(lst) : lst[j] # x) - 1

\* list.index(x): the first position of x in lst
ListIndex(lst, x) ==
    (CHOOSE k \in 1..Len(lst) :
        lst[k] = x /\ \A j \in 1..(k - 1) : lst[j] # x) - 1

\* position (1-based) of the first message of the topic in the bag, 0 if none
FirstOfTopic(b, topic_name) ==
    IF \E k \in 1..Len(b) : b[k].topic = topic_name
    THEN CHOOSE k \in 1..Len(b) :
            b[k].topic = topic_name /\ \A j \in 1..(k - 1) : b[j].topic # topic_name
    ELSE 0

\* an offset taken the wrong way round
ImuOffsetReversed(anchor, imu_start) == imu_start - anchor

\* imu_offset_ns = anchor_ns - imu_start_time_ns
ImuOffset(anchor, imu_start) == anchor - imu_start

\* a duplicate test that looks at no marker
IsDuplicateNever(topic, msg_ts, lw) == FALSE

\* a duplicate test against the marker of any managed topic
IsDuplicateAnyTopic(topic, msg_ts, lw) ==
    \E t \in DOMAIN lw : msg_ts = lw[t]

\* topic in last_written_ts and msg_ts == last_written_ts[topic]
IsDuplicate(topic, msg_ts, lw) ==
    topic \in DOMAIN lw /\ msg_ts = lw[topic]

\* one marker shared by all camera topics
SetMarkerAll(lw, topic, msg_ts) == [t \in CamSet |-> msg_ts]

\* last_written_ts[topic] = msg_ts
SetMarker(lw, topic, msg_ts) ==
    [t \in DOMAIN lw \cup {topic} |-> IF t = topic THEN msg_ts ELSE lw[t]]

\* the argument triple of writer.write; src is the position of the source
\* message in the bag (history)
Record(topic, data, ts, k) ==
    [topic |-> topic, data |-> data, ts |-> ts, src |-> k]

----------------------------------------------------------------------------
(* cook_bag_sync.py : __main__                                             *)

Init ==
    /\ bag \in SeqsUpTo(MsgKinds, MaxBag)
    /\ pc = "anchor"
    /\ printed = <<>>
    /\ stamp_lists = <<>>
    /\ anchor_ns = 0
    /\ first_idx = <<>>
    /\ imu_start_time_ns = 0
    /\ imu_offset_ns = 0
    /\ last_written_ts = <<>>
    /\ pos = 0
    /\ out = <<>>
    /\ PairIdle
    /\ AuditIdle
    /\ FnIdle

\* the stamp lists of the three camera topics, first pass
GatherAll(b) == [i \in 1..Len(CAM_TOPICS) |-> gather_header_stamps(b, CAM_TOPICS[i])]

\* 2.1: the anchor is found and first_idx recorded
AnchorFound ==
    /\ pc = "anchor"
    /\ LET lists == GatherAll(bag)
           r     == find_common_anchor(lists)
       IN  /\ ~r.raised
           /\ stamp_lists' = lists
           /\ anchor_ns' = r.value
           /\ first_idx' = [i \in 1..Len(CAM_TOPICS) |-> ListIndex(lists[i], r.value)]
           /\ printed' = Append(printed, [kind |-> "anchor", ts |-> r.value])
    /\ pc' = "imu"
    /\ UNCHANGED <<bag, imu_start_time_ns, imu_offset_ns, last_written_ts, pos,
                   out, pairVars, auditVars, fnVars>>

\* 2.1: find_common_anchor raises RuntimeError, the run ends
AnchorMissing ==
    /\ pc = "anchor"
    /\ LET lists == GatherAll(bag)
       IN  /\ find_common_anchor(lists).raised
           /\ stamp_lists' = lists
    /\ pc' = "raise"
    /\ UNCHANGED <<printed, bag, anchor_ns, first_idx, imu_start_time_ns,
                   imu_offset_ns, last_written_ts, pos, out, pairVars, auditVars, fnVars>>

\* an IMU scan that goes on without a first IMU message
ImuMissingIgnored ==
    /\ pc = "imu"
    /\ FirstOfTopic(bag, IMU_TOPIC) = 0
    /\ pc' = "open"
    /\ UNCHANGED <<printed, cookVars, pairVars, auditVars, fnVars>>

\* 2.2: no IMU message, sys.exit
ImuMissing ==
    /\ pc = "imu"
    /\ FirstOfTopic(bag, IMU_TOPIC) = 0
    /\ pc' = "exit"
    /\ UNCHANGED <<printed, cookVars, pairVars, auditVars, fnVars>>

\* 2.2: the first IMU message gives the offset
ImuFound ==
    /\ pc = "imu"
    /\ LET k == FirstOfTopic(bag, IMU_TOPIC)
       IN  /\ k # 0
           /\ imu_start_time_ns' = to_ns(bag[k].data)
           /\ imu_offset_ns' = ImuOffset(anchor_ns, to_ns(bag[k].data))
           /\ printed' = Append(printed,
                  [kind |-> "offset",
                   ts |-> ImuOffset(anchor_ns, to_ns(bag[k].data))])
    /\ pc' = "open"
    /\ UNCHANGED <<bag, stamp_lists, anchor_ns, first_idx, last_written_ts, pos,
                   out, pairVars, auditVars, fnVars>>

\* 2: reader and writer are opened, last_written_ts = {}
OpenWriter ==
    /\ pc = "open"
    /\ last_written_ts' = <<>>
    /\ pos' = 0
    /\ out' = <<>>
    /\ pc' = "rewrite"
    /\ UNCHANGED <<printed, bag, stamp_lists, anchor_ns, first_idx,
                   imu_start_time_ns, imu_offset_ns, pairVars, auditVars, fnVars>>

\* 3: an IMU message is shifted and written
RewriteImu ==
    /\ pc = "rewrite"
    /\ pos < Len(bag)
    /\ LET m          == bag[pos + 1]
           new_imu_ts == to_ns(m.data) + imu_offset_ns
       IN  /\ m.topic = IMU_TOPIC
           /\ out' = Append(out, Record(m.topic, from_ns(new_imu_ts), new_imu_ts, pos))
    /\ pos' = pos + 1
    /\ UNCHANGED <<pc, printed, bag, stamp_lists, anchor_ns, first_idx,
                   imu_start_time_ns, imu_offset_ns, last_written_ts, pairVars, auditVars, fnVars>>

\* a pass-through that stamps the record with the header time
RewritePassThroughRetimed ==
    /\ pc = "rewrite"
    /\ pos < Len(bag)
    /\ LET m == bag[pos + 1]
       IN  /\ m.topic # IMU_TOPIC
           /\ m.topic \notin CamSet
           /\ out' = Append(out, Record(m.topic, m.data, to_ns(m.data), pos))
    /\ pos' = pos + 1
    /\ UNCHANGED <<pc, printed, bag, stamp_lists, anchor_ns, first_idx,
                   imu_start_time_ns, imu_offset_ns, last_written_ts, pairVars, auditVars, fnVars>>

\* 3: a message of a topic that is not a camera topic is written as read
RewritePassThrough ==
    /\ pc = "rewrite"
    /\ pos < Len(bag)
    /\ LET m == bag[pos + 1]
       IN  /\ m.topic # IMU_TOPIC
           /\ m.topic \notin CamSet
           /\ out' = Append(out, Record(m.topic, m.data, LogTime(pos), pos))
    /\ pos' = pos + 1
    /\ UNCHANGED <<pc, printed, bag, stamp_lists, anchor_ns, first_idx,
                   imu_start_time_ns, imu_offset_ns, last_written_ts, pairVars, auditVars, fnVars>>

\* 3: a camera message that repeats the last written stamp is skipped
RewriteCamDuplicate ==
    /\ pc = "rewrite"
    /\ pos < Len(bag)
    /\ LET m      == bag[pos + 1]
           msg_ts == to_ns(m.data)
       IN  /\ m.topic # IMU_TOPIC
           /\ m.topic \in CamSet
           /\ IsDuplicate(m.topic, msg_ts, last_written_ts)
           /\ printed' = Append(printed,
                  [kind |-> "skip", topic |-> m.topic, ts |-> msg_ts])
    /\ pos' = pos + 1
    /\ UNCHANGED <<pc, bag, stamp_lists, anchor_ns, first_idx,
                   imu_start_time_ns, imu_offset_ns, last_written_ts, out,
                   pairVars, auditVars, fnVars>>

\* a camera write that is made before the duplicate test and again after it
RewriteCamWriteTwice ==
    /\ pc = "rewrite"
    /\ pos < Len(bag)
    /\ LET m      == bag[pos + 1]
           msg_ts == to_ns(m.data)
           rec    == Record(m.topic, m.data, msg_ts, pos)
       IN  /\ m.topic # IMU_TOPIC
           /\ m.topic \in CamSet
           /\ ~IsDuplicate(m.topic, msg_ts, last_written_ts)
           /\ out' = Append(Append(out, rec), rec)
           /\ last_written_ts' = SetMarker(last_written_ts, m.topic, msg_ts)
    /\ pos' = pos + 1
    /\ UNCHANGED <<pc, printed, bag, stamp_lists, anchor_ns, first_idx,
                   imu_start_time_ns, imu_offset_ns, pairVars, auditVars, fnVars>>

\* 3: any other camera message is written and becomes the last written
RewriteCamWrite ==
    /\ pc = "rewrite"
    /\ pos < Len(bag)
    /\ LET m      == bag[pos + 1]
           msg_ts == to_ns(m.data)
       IN  /\ m.topic # IMU_TOPIC
           /\ m.topic \in CamSet
           /\ ~IsDuplicate(m.topic, msg_ts, last_written_ts)
           /\ out' = Append(out, Record(m.topic, m.data, msg_ts, pos))
           /\ last_written_ts' = SetMarker(last_written_ts, m.topic, msg_ts)
    /\ pos' = pos + 1
    /\ UNCHANGED <<pc, printed, bag, stamp_lists, anchor_ns, first_idx,
                   imu_start_time_ns, imu_offset_ns, pairVars, auditVars, fnVars>>

\* reader.has_next() is false: the closing print
Finish ==
    /\ pc = "rewrite"
    /\ pos = Len(bag)
    /\ printed' = Append(printed, [kind |-> "cooked"])
    /\ pc' = "done"
    /\ UNCHANGED <<cookVars, pairVars, auditVars, fnVars>>

Next ==
    \/ AnchorFound \/ AnchorMissing
    \/ ImuMissing \/ ImuFound
    \/ OpenWriter
    \/ RewriteImu \/ RewritePassThrough \/ RewriteCamDuplicate \/ RewriteCamWrite
    \/ Finish

Spec == Init /\ [][Next]_vars

----------------------------------------------------------------------------
(* cook_bag_sync.py : find_common_anchor called on its own                 *)

\* timestamps (nanoseconds) the lists hold
AnchorValues == { 0, 999999999, NANOS }

\* number of lists given
AnchorArity == { 2, 3 }

AnchorInit ==
    /\ \E k \in AnchorArity :
           stamp_lists \in [1..k -> SeqsUpTo(AnchorValues, MaxList)]
    /\ pc = "anchor_call"
    /\ printed = <<>>
    /\ bag = <<>> /\ anchor_ns = 0
    /\ first_idx = <<>> /\ imu_start_time_ns = 0 /\ imu_offset_ns = 0
    /\ last_written_ts = <<>> /\ pos = 0 /\ out = <<>>
    /\ PairIdle
    /\ AuditIdle
    /\ FnIdle

\* anchor_ns = find_common_anchor(stamp_lists) returns
AnchorReturn ==
    /\ pc = "anchor_call"
    /\ LET r == find_common_anchor(stamp_lists)
       IN  /\ ~r.raised
           /\ anchor_ns' = r.value
    /\ pc' = "anchor_returned"
    /\ UNCHANGED <<printed, bag, stamp_lists, first_idx, imu_start_time_ns,
                   imu_offset_ns, last_written_ts, pos, out, pairVars, auditVars, fnVars>>

\* find_common_anchor raises RuntimeError
AnchorRaise ==
    /\ pc = "anchor_call"
    /\ find_common_anchor(stamp_lists).raised
    /\ pc' = "anchor_raised"
    /\ UNCHANGED <<printed, cookVars, pairVars, auditVars, fnVars>>

AnchorNext == AnchorReturn \/ AnchorRaise

AnchorSpec == AnchorInit /\ [][AnchorNext]_vars

----------------------------------------------------------------------------
(* check_cam_sync.py : check_duplicates and main                           *)

\* args.reference and args.targets
REFERENCE == "/cam_left/image_raw"

TARGETS == << "/cam_middle/image_raw", "/cam_right/image_raw" >>

\* seen[ts] = i
SeenAdd(seen, ts, i) ==
    [t \in DOMAIN seen \cup {ts} |-> IF t = ts THEN i ELSE seen[t]]

\* a scan that remembers the latest index of a stamp instead of the first
RECURSIVE DupScanLatest(_, _, _, _, _)
DupScanLatest(timestamps, label, i, seen, lines) ==
    IF i >= Len(timestamps) THEN lines
    ELSE LET ts == timestamps[i + 1]
         IN  IF ts \in DOMAIN seen
             THEN DupScanLatest(timestamps, label, i + 1, SeenAdd(seen, ts, i),
                          Append(lines, [kind |-> "duplicate", label |-> label,
                                         index |-> i, first |-> seen[ts],
                                         ts |-> ts]))
             ELSE DupScanLatest(timestamps, label, i + 1, SeenAdd(seen, ts, i), lines)

\* the for loop of check_duplicates from index i on: the lines printed
RECURSIVE DupScan(_, _, _, _, _)
DupScan(timestamps, label, i, seen, lines) ==
    IF i >= Len(timestamps) THEN lines
    ELSE LET ts == timestamps[i + 1]
         IN  IF ts \in DOMAIN seen
             THEN DupScan(timestamps, label, i + 1, seen,
                          Append(lines, [kind |-> "duplicate", label |-> label,
                                         index |-> i, first |-> seen[ts],
                                         ts |-> ts]))
             ELSE DupScan(timestamps, label, i + 1, SeenAdd(seen, ts, i), lines)

\* check_duplicates(timestamps, label): the lines it prints
check_duplicates(timestamps, label) ==
    LET lines == DupScan(timestamps, label, 0, <<>>, <<>>)
    IN  IF Len(lines) = 0
        THEN << [kind |-> "no_duplicates", label |-> label] >>
        ELSE lines

\* extract_timestamps(path, topic)
extract_timestamps(b, topic) == b[topic]

AuditInit ==
    /\ audit_bag \in [ {REFERENCE} \cup ToSet(TARGETS) -> SeqsUpTo(Stamps, MaxStream) ]
    /\ tol_ns \in 0..MaxTol
    /\ ref_ts = <<>> /\ tgt_ts = <<>> /\ tgt_i = 0
    /\ pc = "audit_ref"
    /\ printed = <<>>
    /\ reference_ts = <<>> /\ target_ts = <<>>
    /\ i_ref = 0 /\ i_target = 0 /\ unsynced = 0
    /\ matches = <<>> /\ n_diffs = 0
    /\ CookIdle
    /\ FnIdle

\* no message on the reference topic: RuntimeError
AuditRefEmpty ==
    /\ pc = "audit_ref"
    /\ extract_timestamps(audit_bag, REFERENCE) = <<>>
    /\ pc' = "raise"
    /\ UNCHANGED <<printed, pairVars, cookVars, auditVars, fnVars>>

\* the reference stamps are read and checked for duplicates
AuditRefChecked ==
    /\ pc = "audit_ref"
    /\ extract_timestamps(audit_bag, REFERENCE) # <<>>
    /\ ref_ts' = extract_timestamps(audit_bag, REFERENCE)
    /\ printed' = printed \o << [kind |-> "checking", label |-> "reference"] >>
                     \o check_duplicates(extract_timestamps(audit_bag, REFERENCE),
                                         REFERENCE)
    /\ pc' = "audit_targets"
    /\ UNCHANGED <<audit_bag, tgt_ts, tgt_i, pairVars, cookVars, fnVars>>

\* an empty target that ends the loop over the targets
AuditTargetSkippedBreak ==
    /\ pc = "audit_targets"
    /\ tgt_i < Len(TARGETS)
    /\ LET tgt == TARGETS[tgt_i + 1]
       IN  /\ extract_timestamps(audit_bag, tgt) = <<>>
           /\ tgt_ts' = <<>>
           /\ printed' = printed \o << [kind |-> "checking", label |-> tgt],
                                        [kind |-> "skipping"] >>
    /\ pc' = "audit_done"
    /\ UNCHANGED <<tgt_i, audit_bag, ref_ts, pairVars, cookVars, fnVars>>

\* a target without messages is skipped
AuditTargetSkipped ==
    /\ pc = "audit_targets"
    /\ tgt_i < Len(TARGETS)
    /\ LET tgt == TARGETS[tgt_i + 1]
       IN  /\ extract_timestamps(audit_bag, tgt) = <<>>
           /\ tgt_ts' = <<>>
           /\ printed' = printed \o << [kind |-> "checking", label |-> tgt],
                                        [kind |-> "skipping"] >>
    /\ tgt_i' = tgt_i + 1
    /\ UNCHANGED <<pc, audit_bag, ref_ts, pairVars, cookVars, fnVars>>

\* a target with messages is checked for duplicates (the call of check_pair
\* is commented out in main)
AuditTargetChecked ==
    /\ pc = "audit_targets"
    /\ tgt_i < Len(TARGETS)
    /\ LET tgt == TARGETS[tgt_i + 1]
       IN  /\ extract_timestamps(audit_bag, tgt) # <<>>
           /\ tgt_ts' = extract_timestamps(audit_bag, tgt)
           /\ printed' = printed \o << [kind |-> "checking", label |-> tgt] >>
                            \o check_duplicates(extract_timestamps(audit_bag, tgt), tgt)
    /\ tgt_i' = tgt_i + 1
    /\ UNCHANGED <<pc, audit_bag, ref_ts, pairVars, cookVars, fnVars>>

\* the for loop over the targets has ended; main returns
AuditDone ==
    /\ pc = "audit_targets"
    /\ tgt_i = Len(TARGETS)
    /\ pc' = "audit_done"
    /\ UNCHANGED <<printed, pairVars, cookVars, auditVars, fnVars>>

AuditNext ==
    \/ AuditRefEmpty \/ AuditRefChecked
    \/ AuditTargetSkipped \/ AuditTargetChecked
    \/ AuditDone

AuditSpec == AuditInit /\ [][AuditNext]_vars

----------------------------------------------------------------------------
(* check_cam_sync.py : diff_ns and check_duplicates called on their own    *)

\* (sec, nsec) stamps given to diff_ns, nsec in [0, 1_000_000_000)
DiffStamps == { 0, 1, 4, 5 } \X { 0, 1, 999999999 }

\* pairs of stamps at most one second apart in their sec fields
DiffPairs == { p \in DiffStamps \X DiffStamps : Abs(p[1][1] - p[2][1]) <= 1 }

DiffInit ==
    /\ arg \in DiffPairs
    /\ ret = <<>>
    /\ pc = "diff_call"
    /\ printed = <<>>
    /\ PairIdle /\ CookIdle /\ AuditIdle

\* diff_ns(a, b) returns
DiffReturn ==
    /\ pc = "diff_call"
    /\ ret' = diff_ns(arg[1], arg[2])
    /\ pc' = "diff_returned"
    /\ UNCHANGED <<printed, arg, pairVars, cookVars, auditVars>>

DiffNext == DiffReturn

DiffSpec == DiffInit /\ [][DiffNext]_vars

DupInit ==
    /\ arg \in SeqsUpTo(Stamps, MaxDup)
    /\ ret = <<>>
    /\ pc = "dup_call"
    /\ printed = <<>>
    /\ PairIdle /\ CookIdle /\ AuditIdle

\* check_duplicates(timestamps, label) has printed its lines
DupReturn ==
    /\ pc = "dup_call"
    /\ ret' = check_duplicates(arg, REFERENCE)
    /\ printed' = printed \o check_duplicates(arg, REFERENCE)
    /\ pc' = "dup_returned"
    /\ UNCHANGED <<arg, pairVars, cookVars, auditVars>>

DupNext == DupReturn

DupSpec == DupInit /\ [][DupNext]_vars

----------------------------------------------------------------------------
(* Claims about check_pair / find_closest_forward                          *)

\* (sec, nsec) order of two stamps
StampLE(a, b) == a[1] < b[1] \/ (a[1] = b[1] /\ a[2] <= b[2])

NonDecreasing(ts) == \A k \in 1..(Len(ts) - 1) : StampLE(ts[k], ts[k + 1])

\* the smallest delta from t_ref to the target elements of index >= cursor
NearestDelta(t_ref, ts_target, cursor) ==
    SetMin({ diff_ns(t_ref, ts_target[j + 1]) : j \in cursor..(Len(ts_target) - 1) })

\* C1: with both lists non-decreasing (equal neighbours allowed), every match
\* of check_pair has the smallest delta among the target elements at or
\* after the cursor the search started from.
C1_MatchIsNearestUnconsumed ==
    (NonDecreasing(reference_ts) /\ NonDecreasing(target_ts)) =>
        \A k \in 1..Len(matches) :
            /\ matches[k][3] = diff_ns(reference_ts[matches[k][1] + 1],
                                       target_ts[matches[k][2] + 1])
            /\ matches[k][3] = NearestDelta(reference_ts[matches[k][1] + 1],
                                            target_ts, matches[k][4])

\* C2: check_pair produces at most one match per reference element, the
\* target indices of successive matches strictly increase, and the cursor is
\* one past the last matched target index.
C2_OneMatchPerRefTargetsIncrease ==
    /\ \A j, k \in 1..Len(matches) :
           j # k => matches[j][1] # matches[k][1]
    /\ \A k \in 1..(Len(matches) - 1) : matches[k][2] < matches[k + 1][2]
    /\ \A j, k \in 1..Len(matches) :
           j # k => matches[j][2] # matches[k][2]
    /\ Len(matches) > 0 => i_target = matches[Len(matches)][2] + 1
    /\ Len(matches) <= i_ref

\* three matches made on lists that are not sorted, one target element skipped
C2_Witness ==
    /\ Len(matches) >= 2
    /\ ~NonDecreasing(target_ts)
    /\ ~NonDecreasing(reference_ts)
    /\ matches[2][2] > matches[1][2] + 1

----------------------------------------------------------------------------
(* Claims about the rewrite pass of cook_bag_sync.py                       *)

InRewrite == pc \in {"rewrite", "done"}

\* 0-based positions of the messages the rewrite pass has gone through
Processed == IF InRewrite THEN 0..(pos - 1) ELSE {}

TopicAt(k) == bag[k + 1].topic

MsgTs(k) == to_ns(bag[k + 1].data)

ProcessedOf(topic) == { k \in Processed : TopicAt(k) = topic }

\* positions in out of the records written for the message at position k
RecsOf(k) == { i \in 1..Len(out) : out[i].src = k }

Written(k) == RecsOf(k) # {}

\* the message of the same topic that precedes message k, -1 if none
PrevSame(k) ==
    LET S == { j \in 0..(k - 1) : TopicAt(j) = TopicAt(k) }
    IN  IF S = {} THEN -1 ELSE CHOOSE j \in S : \A i \in S : i <= j

\* the message at k repeats the stamp of the same-topic message before it
RepeatsPrev(k) == PrevSame(k) # -1 /\ MsgTs(PrevSame(k)) = MsgTs(k)

\* the header timestamps of the records written for a topic, in out's order
WrittenTs(topic) ==
    LET sel == SelectSeq(out, LAMBDA r : r.topic = topic)
    IN  [i \in 1..Len(sel) |-> sel[i].ts]

\* the marker of every managed topic is the timestamp of the last record
\* written for it, and is absent when no record was written for it
MarkerIsLastWritten ==
    \A t \in CamSet :
        LET w == WrittenTs(t)
        IN  IF Len(w) = 0
            THEN t \notin DOMAIN last_written_ts
            ELSE t \in DOMAIN last_written_ts /\ last_written_ts[t] = w[Len(w)]

\* a written camera message is written once, as read, with its header time
CamWrittenAsRead ==
    \A k \in Processed :
        TopicAt(k) \in CamSet =>
            \A i \in RecsOf(k) :
                out[i] = Record(TopicAt(k), bag[k + 1].data, MsgTs(k), k)

\* of every maximal run of same-topic messages with one stamp exactly the
\* first is written
FirstOfRunWritten ==
    \A k \in Processed :
        TopicAt(k) \in CamSet => (Written(k) <=> ~RepeatsPrev(k))

\* records are written in the order of their source messages
SourceOrderKept ==
    \A i, j \in 1..Len(out) : i < j => out[i].src < out[j].src

\* C3 as stated: the marker discipline, of every run of equal stamps exactly
\* the first is written, and two consecutive same-stream messages with
\* different timestamps are both written in their original order.
C3_ConsecutiveDistinctBothWritten ==
    /\ MarkerIsLastWritten
    /\ CamWrittenAsRead
    /\ FirstOfRunWritten
    /\ SourceOrderKept
    /\ \A k \in Processed :
           (TopicAt(k) \in CamSet /\ PrevSame(k) # -1
              /\ MsgTs(PrevSame(k)) # MsgTs(k))
           => (Written(PrevSame(k)) /\ Written(k))

\* C3 (amended): for every managed stream a message that repeats the stream's
\* last-written timestamp is dropped and the marker kept, any other message
\* is written and becomes the marker; so of every maximal run of equal
\* stamps exactly the first is written, and of two consecutive same-stream
\* messages with different timestamps the later is written, and the earlier
\* is written unless it repeats the message before it; order is kept.
C3_DedupAgainstLastWritten ==
    /\ MarkerIsLastWritten
    /\ CamWrittenAsRead
    /\ FirstOfRunWritten
    /\ SourceOrderKept
    /\ \A k \in Processed :
           (TopicAt(k) \in CamSet /\ PrevSame(k) # -1
              /\ MsgTs(PrevSame(k)) # MsgTs(k))
           => /\ Written(k)
              /\ (Written(PrevSame(k)) <=> ~RepeatsPrev(PrevSame(k)))

\* a camera stream a, a, b has been rewritten: the first a and b are written,
\* the second a is dropped
C3_Witness ==
    /\ pc = "done"
    /\ \E k \in Processed :
           /\ TopicAt(k) \in CamSet
           /\ PrevSame(k) # -1 /\ MsgTs(PrevSame(k)) # MsgTs(k)
           /\ RepeatsPrev(PrevSame(k))
           /\ Written(k) /\ ~Written(PrevSame(k))
           /\ Written(PrevSame(PrevSame(k)))

\* no two records written for one managed topic carry the same timestamp
NoStampTwice(topic) ==
    LET w == WrittenTs(topic)
    IN  \A i, j \in 1..Len(w) : i # j => w[i] # w[j]

\* the header timestamps of the processed messages of a topic never decrease
InputNonDecreasing(topic) ==
    \A j, k \in ProcessedOf(topic) : j < k => MsgTs(j) <= MsgTs(k)

FirstImu == FirstOfTopic(bag, IMU_TOPIC) - 1

\* C5: every IMU message is written exactly once, header and log timestamp
\* both its header timestamp plus offset = anchor - first IMU timestamp; the
\* first IMU message is written with the anchor timestamp and the differences
\* between IMU timestamps are unchanged.
C5_ImuShiftedByAnchorOffset ==
    InRewrite =>
        /\ imu_offset_ns = anchor_ns - MsgTs(FirstImu)
        /\ \A k \in ProcessedOf(IMU_TOPIC) :
               /\ Cardinality(RecsOf(k)) = 1
               /\ \A i \in RecsOf(k) :
                      /\ out[i].topic = IMU_TOPIC
                      /\ out[i].ts = MsgTs(k) + imu_offset_ns
                      /\ to_ns(out[i].data) = out[i].ts
                      /\ k = FirstImu => out[i].ts = anchor_ns
        /\ \A j, k \in ProcessedOf(IMU_TOPIC) :
               \A a \in RecsOf(j), b \in RecsOf(k) :
                   out[b].ts - out[a].ts = MsgTs(k) - MsgTs(j)

\* two IMU messages with different stamps have been written under an offset
\* that is not zero
C5_Witness ==
    /\ pc = "done"
    /\ imu_offset_ns # 0
    /\ \E j, k \in ProcessedOf(IMU_TOPIC) :
           /\ j < k /\ MsgTs(j) # MsgTs(k)
           /\ Written(j) /\ Written(k)

\* topics that are neither the IMU topic nor a camera topic
IsPassThrough(topic) == topic # IMU_TOPIC /\ topic \notin CamSet

\* what the reader returned / the writer was given for the pass-through topics
PassThroughRead(n) ==
    LET idx == SelectSeq([k \in 1..n |-> k - 1], LAMBDA k : IsPassThrough(TopicAt(k)))
    IN  [i \in 1..Len(idx) |->
            [topic |-> TopicAt(idx[i]), data |-> bag[idx[i] + 1].data,
             ts |-> LogTime(idx[i])]]

PassThroughWritten ==
    LET sel == SelectSeq(out, LAMBDA r : IsPassThrough(r.topic))
    IN  [i \in 1..Len(sel) |->
            [topic |-> sel[i].topic, data |-> sel[i].data, ts |-> sel[i].ts]]

\* C6: every message of a pass-through stream is written exactly once with
\* payload and log timestamp unchanged; the output sequence of the
\* pass-through streams equals their input sequence.
C6_PassThroughUnchanged ==
    InRewrite =>
        /\ PassThroughWritten = PassThroughRead(pos)
        /\ \A k \in Processed :
               IsPassThrough(TopicAt(k)) => Cardinality(RecsOf(k)) = 1

\* two pass-through messages have been written, with other messages between
C6_Witness ==
    /\ pc = "done"
    /\ Len(PassThroughWritten) = 2
    /\ \E j, k \in Processed :
           /\ j + 1 < k
           /\ IsPassThrough(TopicAt(j)) /\ IsPassThrough(TopicAt(k))

\* the managed streams have a timestamp in common
HasCommonStamp ==
    \E x \in ToSet(gather_header_stamps(bag, CAM_TOPICS[1])) :
        \A i \in 1..Len(CAM_TOPICS) :
            x \in ToSet(gather_header_stamps(bag, CAM_TOPICS[i]))

HasImu == \E k \in 1..Len(bag) : bag[k].topic = IMU_TOPIC

\* C8: a run whose managed streams have no common timestamp, or whose IMU
\* stream is empty, aborts; no record is written before anchor and offset
\* are known; an aborted run writes no record.
C8_AbortBeforeAnyWrite ==
    /\ ~HasCommonStamp => pc \in {"anchor", "raise"}
    /\ HasCommonStamp => pc # "raise"
    /\ ~HasImu => pc \in {"anchor", "raise", "imu", "exit"}
    /\ (HasCommonStamp /\ HasImu) => pc # "exit"
    /\ out # <<>> =>
           /\ InRewrite
           /\ HasCommonStamp /\ HasImu
           /\ \A i \in 1..Len(CAM_TOPICS) :
                  anchor_ns \in ToSet(gather_header_stamps(bag, CAM_TOPICS[i]))
           /\ imu_offset_ns = anchor_ns - MsgTs(FirstImu)
    /\ pc \in {"raise", "exit"} => out = <<>>

\* a run has aborted because a managed stream has no message although the
\* other two share a stamp
C8_Witness ==
    /\ pc = "raise"
    /\ \E i \in 1..Len(CAM_TOPICS) :
           gather_header_stamps(bag, CAM_TOPICS[i]) = <<>>
    /\ HasImu
    /\ Len(bag) = MaxBag

\* C9: every input message yields at most one record, records are written in
\* arrival order, the records of a managed stream are a subsequence of its
\* input, and non-decreasing input timestamps give non-decreasing output
\* timestamps.
C9_OrderPreservingSubsequence ==
    /\ \A k \in Processed : Cardinality(RecsOf(k)) <= 1
    /\ \A i \in 1..Len(out) : out[i].src \in Processed
    /\ SourceOrderKept
    /\ CamWrittenAsRead
    /\ \A t \in CamSet :
           InputNonDecreasing(t) =>
               LET w == WrittenTs(t)
               IN  \A i \in 1..(Len(w) - 1) : w[i] <= w[i + 1]

\* a managed stream with non-decreasing input has two records written and
\* one message dropped
C9_Witness ==
    /\ pc = "done"
    /\ \E t \in CamSet :
           /\ InputNonDecreasing(t)
           /\ Len(WrittenTs(t)) = 2
           /\ Cardinality(ProcessedOf(t)) = 3

\* the stepwise run of check_pair prints what check_pair as a whole prints
PairRunAgrees ==
    pc = "pair_done" => printed = check_pair(reference_ts, target_ts, tol_ns)

----------------------------------------------------------------------------
(* Claims about find_common_anchor                                         *)

\* the values that occur in every list
CommonValues(lists) ==
    { x \in AnchorValues : \A i \in 1..Len(lists) : x \in ToSet(lists[i]) }

\* C7: for K >= 2 lists with a value in common, find_common_anchor returns
\* the smallest common value: it occurs in every list and no smaller value
\* occurs in every list.
C7_AnchorIsMinOfIntersection ==
    /\ (pc = "anchor_call" /\ CommonValues(stamp_lists) # {}) =>
           ~find_common_anchor(stamp_lists).raised
    /\ CommonValues(stamp_lists) # {} => pc # "anchor_raised"
    /\ pc = "anchor_returned" =>
           /\ anchor_ns \in CommonValues(stamp_lists)
           /\ \A x \in CommonValues(stamp_lists) : anchor_ns <= x

\* three lists with two common values, the smaller of which is returned
\* although the first list holds the larger one first
C7_Witness ==
    /\ pc = "anchor_returned"
    /\ Len(stamp_lists) = 3
    /\ Cardinality(CommonValues(stamp_lists)) = 2
    /\ stamp_lists[1][1] > anchor_ns

----------------------------------------------------------------------------
(* Claims about the audit run (main of check_cam_sync.py)                  *)

\* position in printed of the line that opens the report on a label, 0 if none
HeaderPos(label) ==
    LET S == { p \in 1..Len(printed) :
                 printed[p] = [kind |-> "checking", label |-> label] }
    IN  IF S = {} THEN 0 ELSE CHOOSE p \in S : \A q \in S : p <= q

\* the lines printed for a label: from its opening line to the next one
SegmentOf(label) ==
    LET h == HeaderPos(label)
        N == { p \in (h + 1)..Len(printed) : printed[p].kind = "checking" }
        e == IF N = {} THEN Len(printed) + 1 ELSE CHOOSE p \in N : \A q \in N : p <= q
    IN  IF h = 0 THEN <<>> ELSE SubSeq(printed, h + 1, e - 1)

\* lines is a block of consecutive lines of seg
IsBlockOf(lines, seg) ==
    \E a \in 0..(Len(seg) - Len(lines)) :
        SubSeq(seg, a + 1, a + Len(lines)) = lines

\* C10: in an audit run with a non-empty reference, every target with at
\* least one message is pair-matched against the reference: each pair beyond
\* the tolerance is reported, a final tally is reported for the target, and
\* the next target is processed.
C10_TargetsArePairMatched ==
    pc = "audit_done" =>
        \A i \in 1..Len(TARGETS) :
            extract_timestamps(audit_bag, TARGETS[i]) # <<>> =>
                /\ HeaderPos(TARGETS[i]) # 0
                /\ IsBlockOf(check_pair(ref_ts,
                                        extract_timestamps(audit_bag, TARGETS[i]),
                                        tol_ns),
                             SegmentOf(TARGETS[i]))

\* C11: a reference stream without messages aborts the audit run before any
\* target is examined; a target stream without messages is skipped with a
\* warning and every remaining target is still processed.
C11_EmptyReferenceAbortsEmptyTargetSkipped ==
    /\ extract_timestamps(audit_bag, REFERENCE) = <<>> =>
           /\ pc \in {"audit_ref", "raise"}
           /\ printed = <<>> /\ tgt_i = 0 /\ tgt_ts = <<>>
    /\ extract_timestamps(audit_bag, REFERENCE) # <<>> => pc # "raise"
    /\ pc = "audit_done" =>
           /\ tgt_i = Len(TARGETS)
           /\ \A i \in 1..Len(TARGETS) :
                  /\ HeaderPos(TARGETS[i]) # 0
                  /\ IF extract_timestamps(audit_bag, TARGETS[i]) = <<>>
                     THEN SegmentOf(TARGETS[i]) = << [kind |-> "skipping"] >>
                     ELSE SegmentOf(TARGETS[i]) =
                              check_duplicates(
                                  extract_timestamps(audit_bag, TARGETS[i]),
                                  TARGETS[i])

\* the run has ended after skipping the first target, which is empty, and
\* checking the second, which holds a repeated stamp
C11_Witness ==
    /\ pc = "audit_done"
    /\ extract_timestamps(audit_bag, TARGETS[1]) = <<>>
    /\ Len(extract_timestamps(audit_bag, TARGETS[2])) = 2
    /\ \E p \in 1..Len(printed) : printed[p].kind = "duplicate"

----------------------------------------------------------------------------
(* Claims about diff_ns and check_duplicates                               *)

\* C12: for stamps a, b with nsec in [0, 1_000_000_000), diff_ns(a, b) =
\* diff_ns(b, a), diff_ns(a, a) = 0, the result is |a - b| in nanoseconds,
\* also when a second is borrowed: a = (5,0), b = (4,999999999) gives 1.
C12_DiffIsSymmetricAbsoluteDelta ==
    pc = "diff_returned" =>
        LET a == arg[1]
            b == arg[2]
        IN  /\ ret = diff_ns(b, a)
            /\ a = b => ret = 0
            /\ ret = Abs((a[1] - b[1]) * NANOS + (a[2] - b[2]))
            /\ (a[1] <= 1 /\ b[1] <= 1) =>
                   ret = Abs((a[1] * NANOS + a[2]) - (b[1] * NANOS + b[2]))
            /\ (a = <<5, 0>> /\ b = <<4, 999999999>>) => ret = 1

\* diff_ns((5,0), (4,999999999)) has returned 1
C12_Witness ==
    /\ pc = "diff_returned"
    /\ arg = << <<5, 0>>, <<4, 999999999>> >>
    /\ ret = 1

\* 0-based indices of ts whose stamp occurs at an earlier index
RepeatIndices(ts) ==
    { i \in 0..(Len(ts) - 1) : \E j \in 0..(i - 1) : ts[j + 1] = ts[i + 1] }

\* 0-based index of the first occurrence of the stamp at index i
FirstOccurrence(ts, i) ==
    CHOOSE j \in 0..i :
        ts[j + 1] = ts[i + 1] /\ \A k \in 0..(j - 1) : ts[k + 1] # ts[i + 1]

Occurrences(ts, v) == Cardinality({ i \in 1..Len(ts) : ts[i] = v })

\* C13: check_duplicates reports exactly the indices whose timestamp occurs
\* at an earlier index, each with the index of the first occurrence: a value
\* occurring k > 1 times gives k - 1 reports, distinct values give none.
C13_DuplicatesReportedWithFirstIndex ==
    pc = "dup_returned" =>
        LET D == { p \in 1..Len(ret) : ret[p].kind = "duplicate" }
        IN  /\ { ret[p].index : p \in D } = RepeatIndices(arg)
            /\ Cardinality(D) = Cardinality(RepeatIndices(arg))
            /\ \A p \in D :
                   /\ ret[p].ts = arg[ret[p].index + 1]
                   /\ ret[p].first = FirstOccurrence(arg, ret[p].index)
            /\ \A p, q \in D : p < q => ret[p].index < ret[q].index
            /\ \A v \in Stamps :
                   Occurrences(arg, v) > 1 =>
                       Cardinality({ p \in D : ret[p].ts = v })
                           = Occurrences(arg, v) - 1
            /\ RepeatIndices(arg) = {} =>
                   ret = << [kind |-> "no_duplicates", label |-> REFERENCE] >>
            /\ printed = ret

\* a stamp that occurs three times, not next to each other, has given two
\* reports that name index 0
C13_Witness ==
    /\ pc = "dup_returned"
    /\ Len(arg) = 5
    /\ arg[1] = arg[3] /\ arg[3] = arg[5] /\ arg[2] # arg[1] /\ arg[4] # arg[1]
    /\ arg[2] # arg[4]
    /\ Len(ret) = 2
    /\ ret[1].first = 0 /\ ret[2].first = 0
    /\ ret[1].index = 2 /\ ret[2].index = 4

----------------------------------------------------------------------------
(* Claims about the closing report of check_pair                           *)

\* the tally line check_pair printed last
Tally == printed[Len(printed)]

\* the for loop ended with reference elements left without a match
EarlyTermination == Len(matches) < Len(reference_ts)

\* C14: when every reference element obtained a match, the reported total
\* min(len(reference), len(target)) is the number of matches produced and
\* the reported exceeded count is the number of matches with delta > tol.
C14_TallyCountsMatches ==
    (pc = "pair_done" /\ ~EarlyTermination) =>
        /\ Tally.kind = "tally"
        /\ Tally.total = Min(Len(reference_ts), Len(target_ts))
        /\ Tally.total = Len(matches)
        /\ Tally.unsynced =
               Cardinality({ k \in 1..Len(matches) : matches[k][3] > tol_ns })
        /\ Tally.tol_ns = tol_ns

\* two reference elements matched in a longer target list, one of them
\* beyond the tolerance
C14_Witness ==
    /\ pc = "pair_done" /\ ~EarlyTermination
    /\ Len(reference_ts) = 2 /\ Len(target_ts) = 3
    /\ Len(matches) = 2
    /\ Tally.unsynced = 1

\* C15: when a reference element has no candidate because the cursor is at
\* the end of the target list, neither it nor a later reference element is
\* matched, the early termination is reported, and the pass ends normally.
C15_EarlyTerminationReported ==
    (pc = "pair_done" /\ EarlyTermination) =>
        /\ i_target >= Len(target_ts)
        /\ \A k \in 1..Len(matches) : matches[k][1] < i_ref
        /\ \E p \in 1..Len(printed) : printed[p].kind \notin {"finding", "tally"}

----------------------------------------------------------------------------
(* Claims about the markers, first_idx and the shifted IMU header          *)

\* the marker of topic s: <<ts>> when last_written_ts holds one, <<>> if not
MarkerAt(lw, s) == IF s \in DOMAIN lw THEN << lw[s] >> ELSE <<>>

\* the step writes the message read, a message of s whose stamp is not the
\* marker of s, and makes its stamp the marker of s
WritesNonDuplicateOf(s) ==
    /\ pc = "rewrite" /\ pos < Len(bag)
    /\ bag[pos + 1].topic = s
    /\ MarkerAt(last_written_ts, s) # << to_ns(bag[pos + 1].data) >>
    /\ out' = Append(out, Record(s, bag[pos + 1].data,
                                 to_ns(bag[pos + 1].data), pos))
    /\ MarkerAt(last_written_ts', s) = << to_ns(bag[pos + 1].data) >>

\* the step reads a message of s whose stamp is not the marker of s
ReadsNonDuplicateOf(s) ==
    /\ pc = "rewrite" /\ pos < Len(bag)
    /\ bag[pos + 1].topic = s
    /\ MarkerAt(last_written_ts, s) # << to_ns(bag[pos + 1].data) >>

MarkerStep ==
    \A s \in CamSet :
        /\ MarkerAt(last_written_ts', s) # MarkerAt(last_written_ts, s)
               => WritesNonDuplicateOf(s)
        /\ ReadsNonDuplicateOf(s) => WritesNonDuplicateOf(s)

\* C16: the last-written marker of a camera topic s changes only in a step
\* that writes a non-duplicate message of s; pass-through, IMU, dropped and
\* other camera messages leave it alone, and a message of s whose stamp is
\* not the marker of s is written whatever the other markers hold.
C16_MarkerChangedOnlyByOwnWrite == [][MarkerStep]_vars

\* one stamp written on two camera topics, a duplicate of the first dropped
\* between the two, in a run that also wrote an IMU and a pass-through message
C16_Witness ==
    /\ InRewrite
    /\ \E i, j \in 1..Len(out) :
           /\ i < j
           /\ out[i].topic \in CamSet /\ out[j].topic \in CamSet
           /\ out[i].topic # out[j].topic
           /\ out[i].ts = out[j].ts
           /\ \E k \in (out[i].src + 1)..(out[j].src - 1) :
                  bag[k + 1].topic = out[i].topic /\ ~Written(k)
    /\ \E i \in 1..Len(out) : out[i].topic = IMU_TOPIC
    /\ \E i \in 1..Len(out) : out[i].topic = OTHER_TOPIC

\* first_idx has been recorded
AnchorResolved == pc \in {"imu", "open", "rewrite", "done", "exit"}

\* C17: for every camera topic, first_idx is the smallest index at which
\* the topic's stamp list holds the anchor, also when the anchor occurs
\* more than once in the list.
C17_FirstIdxIsSmallestAnchorIndex ==
    AnchorResolved =>
        \A i \in 1..Len(CAM_TOPICS) :
            /\ stamp_lists[i] = gather_header_stamps(bag, CAM_TOPICS[i])
            /\ first_idx[i] \in 0..(Len(stamp_lists[i]) - 1)
            /\ stamp_lists[i][first_idx[i] + 1] = anchor_ns
            /\ \A j \in 0..(first_idx[i] - 1) : stamp_lists[i][j + 1] # anchor_ns

\* the anchor occurs twice in the first topic's list, after another stamp
C17_Witness ==
    /\ AnchorResolved
    /\ first_idx[1] = 1
    /\ Len(stamp_lists[1]) = 3
    /\ stamp_lists[1][2] = anchor_ns /\ stamp_lists[1][3] = anchor_ns

\* C19: the header written back for an IMU message has 0 <= nanosec <
\* 1_000_000_000 and sec * 1_000_000_000 + nanosec = original stamp +
\* offset, which is the log timestamp of the record, also when it is negative.
C19_ShiftedHeaderIsFloorSplit ==
    InRewrite =>
        \A i \in 1..Len(out) :
            out[i].topic = IMU_TOPIC =>
                LET shifted == to_ns(bag[out[i].src + 1].data) + imu_offset_ns
                    sec     == out[i].data[1]
                    nanosec == out[i].data[2]
                IN  /\ 0 <= nanosec /\ nanosec < NANOS
                    /\ sec * NANOS + nanosec = shifted
                    /\ out[i].ts = shifted

\* an IMU message shifted to a negative time has been written with sec -1
C19_Witness ==
    /\ InRewrite
    /\ imu_offset_ns < 0
    /\ \E i \in 1..Len(out) :
           /\ out[i].topic = IMU_TOPIC
           /\ out[i].ts = -2
           /\ out[i].data = << -1, 999999998 >>

----------------------------------------------------------------------------
(* Claims about the cost and the termination of check_pair                 *)

\* one call of find_closest_forward computes at most one delta more than the
\* number of positions the cursor advances
CallExaminesAdvancePlusOne ==
    n_diffs' - n_diffs <= (i_target' - i_target) + 1

\* C18: for any reference and target lists, sorted or not, a check_pair pass
\* computes at most len(reference) + len(target) deltas, each call of
\* find_closest_forward at most one more than the cursor then advances, and
\* the pass always terminates.
C18_LinearDeltasAndTermination ==
    /\ [](n_diffs <= Len(reference_ts) + Len(target_ts))
    /\ [][CallExaminesAdvancePlusOne]_vars
    /\ <>(pc = "pair_done")

\* a finished pass over an unsorted target list in which both calls computed
\* one delta more than the cursor advanced
C18_Witness ==
    /\ pc = "pair_done"
    /\ ~NonDecreasing(target_ts)
    /\ Len(reference_ts) = 2 /\ Len(target_ts) = 3
    /\ Len(matches) = 2 /\ i_target = 2
    /\ n_diffs = 4

=============================================================================
